---- MODULE Spec2Model ----
(***************************************************************************)
(* tinytrace: the span lifecycle engine of include/tinytrace/tinytrace.hpp *)
(* (identity allocator, per-thread TraceContext, TraceSpan guard,          *)
(* TraceBackend sink), modelled as a state machine of application threads  *)
(* that construct and destroy properly nested TraceSpan objects.           *)
(*                                                                         *)
(* The bodies of TraceContext::push_span, TraceContext::pop_span,          *)
(* TraceBackend::set_output_file, TraceBackend::write_span,                *)
(* TraceBackend::flush and TraceSpan::emit_span are empty in the header;   *)
(* the operators below are translated from those bodies as they stand.     *)
(***************************************************************************)
EXTENDS Integers, Sequences, FiniteSets, TLC

\* ------------------------------------------------------------------ bounds
NumThreads == 2
MaxSpans == 3
MaxDepth == 2
MaxClock == 2
MaxWrites == 1
\* steady_clock ticks per microsecond (its period is implementation-defined).
TicksPerMicro == 2

Threads == 1..NumThreads
Names == {"op"}
Paths == {"trace.jsonl"}
\* A serialized record is modelled by the fields it encodes.
JsonLines == {[name |-> "raw", span_id |-> 0, parent_id |-> 0, duration_us |-> 0, thread_id |-> 0]}
NoPath == "none"
NoThread == 0

\* ------------------------------------------------------------------ state
VARIABLES
    counter,    \* static std::atomic<uint64_t> counter of next_span_id
    ctx,        \* thread_local TraceContext of each thread
    live,       \* the TraceSpan objects in scope on each thread, outermost first
    pc,         \* where each thread is: run, ctor, dtor, finished
    pend,       \* the locals of the constructor or destructor in progress
    unwind,     \* scopes an exception in flight still has to leave, per thread
    now,        \* steady_clock reading
    backend,    \* the TraceBackend singleton's members
    console,    \* lines on standard output
    files,      \* the file system: path -> existence and lines
    allocs,     \* history: ids returned by next_span_id, in completion order
    done,       \* history: the spans whose destructor has returned
    cfg,        \* history: last set_trace_output call and what followed it
    writeLog    \* history: records handed to TraceBackend::write_span

vars == <<counter, ctx, live, pc, pend, unwind, now, backend, console, files,
          allocs, done, cfg, writeLog>>

\* ------------------------------------------------------- TraceContext
\* TraceContext(): span_stack_ empty, current_span_id_ = 0.
TraceContext == [span_stack_ |-> <<>>, current_span_id_ |-> 0]

current_span_id(c) == c.current_span_id_

\* push_span as a working push: the id goes on the stack and becomes current.
push_span_pushing(c, span_id) ==
    [span_stack_ |-> Append(c.span_stack_, span_id), current_span_id_ |-> span_id]

\* push_span that grows the stack and leaves current_span_id_ as it was.
push_span_stack_only(c, span_id) ==
    [c EXCEPT !.span_stack_ = Append(@, span_id)]

\* void push_span(uint64_t span_id) { }
push_span(c, span_id) == c

\* void pop_span() { }
pop_span(c) == c

\* ------------------------------------------------------- TraceBackend
\* TraceBackend(): mutex_ unlocked, file_output_ null, use_file_ false.
TraceBackend == [mutex_ |-> NoThread, file_output_ |-> NoPath, use_file_ |-> FALSE]

\* The sink's world: the backend members and the destinations it could write.
World == [backend |-> backend, console |-> console, files |-> files]

\* void set_output_file(const std::string& path) { }
set_output_file(w, path) == w

\* void write_span(const std::string& json) { }
write_span(w, json) == w

\* void flush() { }
flush(w) == w

\* inline void set_trace_output(path) { TraceBackend::instance().set_output_file(path); }
set_trace_output(w, path) == set_output_file(w, path)

\* inline void flush_traces() { TraceBackend::instance().flush(); }
flush_traces(w) == flush(w)

\* ------------------------------------------------------- TraceSpan
\* fetch_add whose store is lost: the old value is returned, nothing is added.
fetch_add_lost(c, n) == [ret |-> c, counter |-> c]

\* fetch_add mistaken for add_fetch: the new value is returned.
fetch_add_new(c, n) == [ret |-> c + n, counter |-> c + n]

\* counter.fetch_add(1): returns the old value and stores old + 1, atomically.
fetch_add(c, n) == [ret |-> c, counter |-> c + n]

\* static uint64_t next_span_id()
next_span_id(c) == fetch_add(c, 1)

\* void emit_span(duration_us duration) { }
emit_span(w, data, duration) == w

\* The operands exchanged: start_time - end_time.
duration_of_swapped(start_time, end_time) == (start_time - end_time) \div TicksPerMicro

\* duration_cast<microseconds>(end_time - data_.start_time): whole microseconds.
duration_of(start_time, end_time) == (end_time - start_time) \div TicksPerMicro

SpanOf(t) == live[t][Len(live[t])]

\* What pop_span finds when ~TraceSpan calls it for span_id: the stack is
\* empty, or its top is not the span being destroyed.
PopMismatch(c, span_id) ==
    \/ Len(c.span_stack_) = 0
    \/ c.span_stack_[Len(c.span_stack_)] # span_id

\* ------------------------------------------------------------------ Init
Init ==
    /\ counter = 1
    /\ ctx = [t \in Threads |-> TraceContext]
    /\ live = [t \in Threads |-> <<>>]
    /\ pc = [t \in Threads |-> "run"]
    /\ pend = [t \in Threads |-> [name |-> "", span_id |-> 0, end_time |-> 0,
                                   duration |-> 0, mismatch |-> FALSE]]
    /\ unwind = [t \in Threads |-> 0]
    /\ now = 0
    /\ backend = TraceBackend
    /\ console = <<>>
    /\ files = [p \in Paths |-> [exists |-> FALSE, lines |-> <<>>]]
    /\ allocs = <<>>
    /\ done = {}
    /\ cfg = [path |-> NoPath, since |-> {}, flushed |-> FALSE]
    /\ writeLog = <<>>

\* ------------------------------------------------------------------ actions
\* steady_clock advances.
Tick ==
    /\ now < MaxClock
    /\ now' = now + 1
    /\ UNCHANGED <<counter, ctx, live, pc, pend, unwind, backend, console, files,
                   allocs, done, cfg, writeLog>>

\* TraceSpan::TraceSpan, first part: data_.span_id = next_span_id().
Construct_alloc(t, name) ==
    /\ pc[t] = "run"
    /\ unwind[t] = 0
    /\ Len(live[t]) < MaxDepth
    /\ counter <= MaxSpans
    /\ LET r == next_span_id(counter) IN
        /\ counter' = r.counter
        /\ pend' = [pend EXCEPT ![t] = [name |-> name, span_id |-> r.ret, end_time |-> 0,
                                        duration |-> 0, mismatch |-> FALSE]]
        /\ allocs' = Append(allocs, [thread_id |-> t, span_id |-> r.ret])
    /\ pc' = [pc EXCEPT ![t] = "ctor"]
    /\ UNCHANGED <<ctx, live, unwind, now, backend, console, files, done, cfg, writeLog>>

\* The constructor with data_ shared by the thread's spans (a static member):
\* constructing a span overwrites what the spans already in scope report.
Construct_enter_shared(t) ==
    /\ pc[t] = "ctor"
    /\ LET data_ == [name |-> pend[t].name,
                     span_id |-> pend[t].span_id,
                     parent_id |-> current_span_id(ctx[t]),
                     start_time |-> now,
                     thread_id |-> t] IN
        /\ live' = [live EXCEPT ![t] = [i \in 1..(Len(@) + 1) |-> data_]]
        /\ ctx' = [ctx EXCEPT ![t] = push_span(@, data_.span_id)]
    /\ pc' = [pc EXCEPT ![t] = "run"]
    /\ UNCHANGED <<counter, pend, unwind, now, backend, console, files,
                   allocs, done, cfg, writeLog>>

\* TraceSpan::TraceSpan, the rest: parent_id = current_span_id(), start_time =
\* clock_type::now(), thread_id = this_thread::get_id(); then push_span(span_id).
Construct_enter(t) ==
    /\ pc[t] = "ctor"
    /\ LET data_ == [name |-> pend[t].name,
                     span_id |-> pend[t].span_id,
                     parent_id |-> current_span_id(ctx[t]),
                     start_time |-> now,
                     thread_id |-> t] IN
        /\ live' = [live EXCEPT ![t] = Append(@, data_)]
        /\ ctx' = [ctx EXCEPT ![t] = push_span(@, data_.span_id)]
    /\ pc' = [pc EXCEPT ![t] = "run"]
    /\ UNCHANGED <<counter, pend, unwind, now, backend, console, files,
                   allocs, done, cfg, writeLog>>

\* TraceSpan::~TraceSpan of the innermost span, first part: end_time, duration,
\* pop_span(). Runs when the scope ends normally or while an exception unwinds.
Destruct_pop(t) ==
    /\ pc[t] = "run"
    /\ Len(live[t]) > 0
    /\ pend' = [pend EXCEPT ![t] = [name |-> SpanOf(t).name,
                                    span_id |-> SpanOf(t).span_id,
                                    end_time |-> now,
                                    duration |-> duration_of(SpanOf(t).start_time, now),
                                    mismatch |-> PopMismatch(ctx[t], SpanOf(t).span_id)]]
    /\ ctx' = [ctx EXCEPT ![t] = pop_span(@)]
    /\ pc' = [pc EXCEPT ![t] = "dtor"]
    /\ UNCHANGED <<counter, live, unwind, now, backend, console, files,
                   allocs, done, cfg, writeLog>>

\* TraceSpan::~TraceSpan, the rest: emit_span(duration); the object is gone.
Destruct_emit(t) ==
    /\ pc[t] = "dtor"
    /\ LET w == emit_span(World, SpanOf(t), pend[t].duration) IN
        /\ backend' = w.backend
        /\ console' = w.console
        /\ files' = w.files
    /\ done' = done \cup {[data |-> SpanOf(t),
                             end_time |-> pend[t].end_time,
                             duration |-> pend[t].duration,
                             exit |-> IF unwind[t] > 0 THEN "exception" ELSE "normal",
                             outer |-> IF Len(live[t]) > 1
                                       THEN live[t][Len(live[t]) - 1].span_id ELSE 0]}
    /\ live' = [live EXCEPT ![t] = SubSeq(@, 1, Len(@) - 1)]
    /\ unwind' = [unwind EXCEPT ![t] = IF @ > 0 THEN @ - 1 ELSE 0]
    /\ cfg' = IF cfg.path = NoPath THEN cfg
              ELSE [cfg EXCEPT !.since = @ \cup {SpanOf(t).span_id}, !.flushed = FALSE]
    /\ pc' = [pc EXCEPT ![t] = "run"]
    /\ UNCHANGED <<counter, ctx, pend, now, allocs, writeLog>>

\* The application throws inside the innermost scope; the handler is k scopes out.
Throw(t) ==
    /\ pc[t] = "run"
    /\ unwind[t] = 0
    /\ \E k \in 1..Len(live[t]) : unwind' = [unwind EXCEPT ![t] = k]
    /\ UNCHANGED <<counter, ctx, live, pc, pend, now, backend, console, files,
                   allocs, done, cfg, writeLog>>

\* The thread function returns with no span in scope.
Finish(t) ==
    /\ pc[t] = "run"
    /\ unwind[t] = 0
    /\ Len(live[t]) = 0
    /\ pc' = [pc EXCEPT ![t] = "finished"]
    /\ UNCHANGED <<counter, ctx, live, pend, unwind, now, backend, console, files,
                   allocs, done, cfg, writeLog>>

\* The application calls set_trace_output(path).
SetTraceOutput(t, path) ==
    /\ pc[t] = "run"
    /\ unwind[t] = 0
    /\ cfg.path # path
    /\ LET w == set_trace_output(World, path) IN
        /\ backend' = w.backend
        /\ console' = w.console
        /\ files' = w.files
    /\ cfg' = [path |-> path, since |-> {}, flushed |-> FALSE]
    /\ UNCHANGED <<counter, ctx, live, pc, pend, unwind, now, allocs, done, writeLog>>

\* The application calls flush_traces().
FlushTraces(t) ==
    /\ pc[t] = "run"
    /\ unwind[t] = 0
    /\ cfg.path # NoPath
    /\ ~cfg.flushed
    /\ LET w == flush_traces(World) IN
        /\ backend' = w.backend
        /\ console' = w.console
        /\ files' = w.files
    /\ cfg' = [cfg EXCEPT !.flushed = TRUE]
    /\ UNCHANGED <<counter, ctx, live, pc, pend, unwind, now, allocs, done, writeLog>>

\* The application calls TraceBackend::instance().write_span(json).
WriteSpan(t, json) ==
    /\ pc[t] = "run"
    /\ unwind[t] = 0
    /\ Len(writeLog) < MaxWrites
    /\ LET w == write_span(World, json) IN
        /\ backend' = w.backend
        /\ console' = w.console
        /\ files' = w.files
    /\ writeLog' = Append(writeLog, json)
    /\ UNCHANGED <<counter, ctx, live, pc, pend, unwind, now, allocs, done, cfg>>

Next ==
    \/ Tick
    \/ \E t \in Threads, name \in Names : Construct_alloc(t, name)
    \/ \E t \in Threads : Construct_enter(t)
    \/ \E t \in Threads : Destruct_pop(t)
    \/ \E t \in Threads : Destruct_emit(t)
    \/ \E t \in Threads : Throw(t)
    \/ \E t \in Threads : Finish(t)
    \/ \E t \in Threads, path \in Paths : SetTraceOutput(t, path)
    \/ \E t \in Threads : FlushTraces(t)
    \/ \E t \in Threads, json \in JsonLines : WriteSpan(t, json)

Spec == Init /\ [][Next]_vars

\* The span lifecycle alone: threads constructing and destroying spans, with
\* the clock stopped and no call of the sink's configuration interface.
NextSpans ==
    \/ \E t \in Threads, name \in Names : Construct_alloc(t, name)
    \/ \E t \in Threads : Construct_enter(t)
    \/ \E t \in Threads : Destruct_pop(t)
    \/ \E t \in Threads : Destruct_emit(t)
    \/ \E t \in Threads : Finish(t)

SpecSpans == Init /\ [][NextSpans]_vars

\* The span lifecycle under fair scheduling: a thread inside a constructor or a
\* destructor is eventually scheduled to finish it; whether the application
\* starts another operation is up to the application.
SpecFair ==
    /\ Init /\ [][NextSpans]_vars
    /\ \A t \in Threads : WF_vars(Construct_enter(t)) /\ WF_vars(Destruct_emit(t))

\* One thread's span lifecycle with the clock running: what a span measures
\* depends on its own thread's steps and on the clock only.
MainThread == 1

NextTiming ==
    \/ Tick
    \/ \E name \in Names : Construct_alloc(MainThread, name)
    \/ Construct_enter(MainThread)
    \/ Destruct_pop(MainThread)
    \/ Destruct_emit(MainThread)
    \/ Finish(MainThread)

SpecTiming == Init /\ [][NextTiming]_vars

\* The span lifecycle together with the calls of the sink's interface.
NextSink ==
    \/ \E t \in Threads, name \in Names : Construct_alloc(t, name)
    \/ \E t \in Threads : Construct_enter(t)
    \/ \E t \in Threads : Destruct_pop(t)
    \/ \E t \in Threads : Destruct_emit(t)
    \/ \E t \in Threads : Finish(t)
    \/ \E t \in Threads, path \in Paths : SetTraceOutput(t, path)
    \/ \E t \in Threads : FlushTraces(t)
    \/ \E t \in Threads, json \in JsonLines : WriteSpan(t, json)

SpecSink == Init /\ [][NextSink]_vars

\* ------------------------------------------------------------------ helpers
AllFinished == \A t \in Threads : pc[t] = "finished"

\* The span that was innermost on thread t when live[t][i] was constructed:
\* with properly nested scopes it is the one right below it, still in scope.
EnclosingId(t, i) == IF i = 1 THEN 0 ELSE live[t][i - 1].span_id

RECURSIVE FileLines(_)
FileLines(S) ==
    IF S = {} THEN <<>>
    ELSE LET p == CHOOSE q \in S : TRUE IN files[p].lines \o FileLines(S \ {p})

\* Every line the sink has written, console first.
Emitted == console \o FileLines(Paths)

RecordsOf(d) ==
    {i \in 1..Len(Emitted) : /\ Emitted[i].span_id = d.data.span_id
                             /\ Emitted[i].parent_id = d.data.parent_id}

\* ------------------------------------------------------------------ claims

\* C1: on every thread each span in scope has as parent_id the span_id of the
\* span that was innermost on the thread when it was constructed, 0 if none.
C1_ParentIsInnermostLive ==
    \A t \in Threads : \A i \in 1..Len(live[t]) :
        live[t][i].parent_id = EnclosingId(t, i)

\* C2: the ids returned by next_span_id, in the order the allocations
\* completed, are strictly increasing (hence pairwise distinct, never reused),
\* whichever threads made them.
C2_IdsStrictlyIncreasing ==
    \A i \in 1..Len(allocs) : \A j \in 1..Len(allocs) :
        i < j => allocs[i].span_id < allocs[j].span_id

\* C2 witness: both threads have allocated, interleaved, three ids in all.
C2_Witness ==
    /\ Len(allocs) >= 3
    /\ allocs[1].thread_id # allocs[2].thread_id
    /\ allocs[3].thread_id = allocs[1].thread_id

\* C3: once every thread has finished, the sink holds exactly one record per
\* span created and destroyed, no two records share a span_id, and until then
\* some step is always possible.
C3_AllRecordsEmitted ==
    /\ AllFinished =>
        /\ Len(Emitted) = Cardinality(done)
        /\ \A i \in 1..Len(Emitted) : \A j \in 1..Len(Emitted) :
              i # j => Emitted[i].span_id # Emitted[j].span_id
    /\ AllFinished \/ ENABLED Next

\* C4: every span whose destructor has returned, on the normal path or while
\* an exception unwinds, has exactly one record in the output with its
\* span_id and parent_id, and is no longer on its thread's nesting stack.
C4_OneRecordOnEveryExit ==
    \A d \in done :
        /\ Cardinality(RecordsOf(d)) = 1
        /\ \A k \in 1..Len(ctx[d.data.thread_id].span_stack_) :
              ctx[d.data.thread_id].span_stack_[k] # d.data.span_id

\* C5: a span's parent_id comes from its own thread only: a span with no span
\* in scope below it on its thread has parent_id 0, a nested span has the id
\* of its thread's outer span, and a parent_id never names an id allocated by
\* another thread.
C5_ParentFromOwnThread ==
    \A t \in Threads : \A i \in 1..Len(live[t]) :
        /\ i = 1 => live[t][i].parent_id = 0
        /\ i > 1 => live[t][i].parent_id = live[t][i - 1].span_id
        /\ \A k \in 1..Len(allocs) :
              allocs[k].span_id = live[t][i].parent_id => allocs[k].thread_id = t

\* C6: every child that was created and destroyed under a parent that is
\* still in scope reported that parent's span_id as its parent_id.
C6_SiblingsShareParent ==
    \A t \in Threads : \A i \in 1..Len(live[t]) : \A d \in done :
        d.outer = live[t][i].span_id => d.data.parent_id = live[t][i].span_id

\* C7: when B was created while A was in scope on the same thread and both
\* have been destroyed, both have a record and B's comes before A's.
C7_InnerEmittedFirst ==
    \A a \in done : \A b \in done :
        b.outer = a.data.span_id =>
            \E i \in RecordsOf(b) : \E j \in RecordsOf(a) : i < j

\* C8: every record handed to write_span is a whole line of the output, and
\* no thread other than a writer holds the sink's mutex.
C8_WrittenUnderLock ==
    /\ \A k \in 1..Len(writeLog) : \E i \in 1..Len(Emitted) : Emitted[i] = writeLog[k]
    /\ backend.mutex_ \in Threads \cup {NoThread}

\* C9: after set_trace_output(path) and a flush_traces() that has returned,
\* the file at path exists and holds exactly one line per span destroyed
\* since the set_trace_output call.
C9_FileHoldsEveryRecord ==
    (cfg.path # NoPath /\ cfg.flushed) =>
        /\ files[cfg.path].exists
        /\ Len(files[cfg.path].lines) = Cardinality(cfg.since)
        /\ \A id \in cfg.since :
              Cardinality({i \in 1..Len(files[cfg.path].lines) :
                              files[cfg.path].lines[i].span_id = id}) = 1

\* C11: a thread whose destructor called pop_span on an empty stack, or on a
\* stack whose top was not the span being destroyed, is in the failed outcome
\* that reports the mismatch.
C11_MismatchReported ==
    \A t \in Threads : pend[t].mismatch => pc[t] = "failed"

\* C12: the first id next_span_id returns is 1, and no allocated id and no
\* span's span_id is 0, so a parent_id of 0 names no span.
C12_FirstIdOneNeverZero ==
    /\ Len(allocs) > 0 => allocs[1].span_id = 1
    /\ \A k \in 1..Len(allocs) : allocs[k].span_id # 0
    /\ \A t \in Threads : \A i \in 1..Len(live[t]) : live[t][i].span_id # 0
    /\ \A d \in done : d.data.span_id # 0

\* C12 witness: the span with the first id is in scope as a root, parent_id 0,
\* while another span has been destroyed.
C12_Witness ==
    /\ \E t \in Threads : Len(live[t]) > 0 /\ live[t][1].span_id = 1
                          /\ live[t][1].parent_id = 0
    /\ done # {}

\* The span ids of the spans in scope on thread t, outermost first.
LiveIds(t) == [i \in 1..Len(live[t]) |-> live[t][i].span_id]

\* C14: outside a constructor or destructor, each thread's span_stack_ holds
\* exactly the ids of the spans in scope on that thread, in creation order,
\* strictly increasing from bottom to top; it is empty when none is in scope.
C14_StackIsLiveSpans ==
    \A t \in Threads :
        pc[t] \in {"run", "finished"} =>
            /\ ctx[t].span_stack_ = LiveIds(t)
            /\ \A i \in 1..Len(ctx[t].span_stack_) : \A j \in 1..Len(ctx[t].span_stack_) :
                  i < j => ctx[t].span_stack_[i] < ctx[t].span_stack_[j]

\* C15: while a destructor is between pop_span and emit_span, the span it
\* destroys is not on its thread's stack and the thread's current span id is
\* that span's parent_id.
C15_PoppedBeforeEmit ==
    \A t \in Threads :
        pc[t] = "dtor" =>
            /\ \A k \in 1..Len(ctx[t].span_stack_) :
                  ctx[t].span_stack_[k] # SpanOf(t).span_id
            /\ current_span_id(ctx[t]) = SpanOf(t).parent_id

\* C15 witness: the destructor of a nested span is about to call emit_span.
C15_Witness ==
    \E t \in Threads : pc[t] = "dtor" /\ Len(live[t]) = 2

\* C16: no step changes the span_id or the parent_id of a span that stays in
\* scope, whichever thread takes the step and whatever it does.
C16_IdsImmutable ==
    [][\A t \in Threads : \A i \in 1..Len(live[t]) :
          i <= Len(live'[t]) =>
              /\ live'[t][i].span_id = live[t][i].span_id
              /\ live'[t][i].parent_id = live[t][i].parent_id]_vars

\* C16 witness: a root span still reports parent_id 0 after its child has been
\* destroyed and after the sink's interface has been called.
C16_Witness ==
    /\ \E t \in Threads :
          /\ Len(live[t]) = 1
          /\ live[t][1].parent_id = 0
          /\ \E d \in done : d.outer = live[t][1].span_id
    /\ cfg.flushed
    /\ Len(writeLog) > 0

\* C17: under fair scheduling a thread that has started to emit a span's
\* record eventually holds the sink's mutex, every holder eventually releases
\* it, and the destruction eventually completes.
C17_EmitAcquiresAndCompletes ==
    \A t \in Threads :
        /\ (pc[t] = "dtor") ~> (backend.mutex_ = t)
        /\ (backend.mutex_ = t) ~> (backend.mutex_ = NoThread)
        /\ (pc[t] = "dtor") ~> (pc[t] = "run")

\* The part of C17 that the code does keep: every destruction completes.
DestructionCompletes ==
    \A t \in Threads : (pc[t] = "dtor") ~> (pc[t] = "run")

\* C19: the duration a destructor hands to emit_span is never negative and is
\* the whole number of microseconds between the clock reading taken by the
\* constructor and the one taken by the destructor.
C19_DurationIsElapsedMicros ==
    \A d \in done :
        /\ d.duration >= 0
        /\ d.duration * TicksPerMicro <= d.end_time - d.data.start_time
        /\ d.end_time - d.data.start_time < (d.duration + 1) * TicksPerMicro

\* C19 witness: one destroyed span lasted a whole microsecond, another less.
C19_Witness ==
    /\ \E d \in done : d.duration > 0
    /\ \E d \in done : d.duration = 0 /\ d.end_time > d.data.start_time

\* C20: in every state of every thread's TraceContext, current_span_id_ is the
\* last element of span_stack_, or 0 when span_stack_ is empty.
C20_CurrentIsTop ==
    \A t \in Threads :
        ctx[t].current_span_id_ =
            IF Len(ctx[t].span_stack_) = 0 THEN 0
            ELSE ctx[t].span_stack_[Len(ctx[t].span_stack_)]

\* C20 witness: push_span has run for a span still in scope and pop_span has
\* run for a span already destroyed on the same thread.
C20_Witness ==
    \E t \in Threads :
        /\ pc[t] = "run"
        /\ Len(live[t]) > 0
        /\ \E d \in done : d.data.thread_id = t

====
